---- MODULE Spec2Model ----
(***************************************************************************)
(* Model of assistant/probes/controller.py: the ProbeController, which     *)
(* indexes the callable functions of the registered probes and brokers    *)
(* function calls from the Assistant to the probe owning the function.    *)
(***************************************************************************)
EXTENDS Integers, Sequences, FiniteSets, TLC

\* ---------------------------------------------------------------- bounds
MaxProbes == 2        \* probes registered in __probe_index
MaxFuncs == 2         \* function definitions one probe lists
MaxControllers == 2   \* ProbeController() constructions in one process

\* ------------------------------------------------------------ value sets
AllProbeNames == <<"database", "network", "host">>
ProbeNames == {AllProbeNames[i] : i \in 1..MaxProbes}
FunctionNames == {"a1", "b1"}
Descriptions == {"d1", "d2"}
\* a function definition as a probe's list_function returns it; "a1" is the
\* name that two listings may describe differently
FunctionDefinitions ==
    {d \in [name : FunctionNames, description : Descriptions] :
        d.name = "b1" => d.description = "d1"}
\* names the Assistant may ask for: the advertised ones and one unknown
CallNames == FunctionNames \cup {"missing"}
\* argument mappings, as sets of <<key, value>> pairs
CallArgs == {{}, {<<"x", 1>>}}
\* what a probe's call_function may do: return a string, or raise
ProbeBehaviours ==
    [kind : {"return"}, value : {"r1", "r2"}]
        \cup {[kind |-> "raise", value |-> ""]}

RECURSIVE SeqsUpTo(_, _)
SeqsUpTo(S, n) ==
    IF n = 0 THEN {<<>>}
    ELSE LET shorter == SeqsUpTo(S, n - 1)
         IN shorter \cup {Append(s, x) : s \in shorter, x \in S}

\* a probe descriptor: its name and what its list_function returns
ProbeDescriptors ==
    [name : ProbeNames, list_function : SeqsUpTo(FunctionDefinitions, MaxFuncs)]

\* registries: probe names are unique within __probe_index; the probe at
\* position i carries the i-th name
Registries ==
    {r \in SeqsUpTo(ProbeDescriptors, MaxProbes) :
        \A i \in 1..Len(r) : r[i].name = AllProbeNames[i]}

VARIABLES
    probe_index,      \* ProbeController.__probe_index (class attribute)
    function_index,   \* ProbeController.__function_index (class attribute)
    constructed,      \* number of ProbeController instances constructed
    last,             \* the most recent operation and how it ended
    listed,           \* <<r>>: r is the latest function_list() return value
    previous          \* <<r>>: r is the function_list() return before that

vars == <<probe_index, function_index, constructed, last, listed, previous>>

\* -------------------------------------------------- __init__, lines 110-112
\* line 112: the 'probe' value of an index entry is the probe's name
\* faulty variant: the entry is tagged with the function's name
probe_tag_function(probe, probe_func) == probe_func.name

probe_tag(probe, probe_func) == probe.name

RECURSIVE index_probe(_, _, _)
index_probe(index, probe, funcs) ==
    IF funcs = <<>> THEN index
    ELSE index_probe(
            Append(index, [probe |-> probe_tag(probe, Head(funcs)),
                           function |-> Head(funcs)]),
            probe, Tail(funcs))

\* outer loop: every probe of __probe_index, in order
RECURSIVE index_probes(_, _)
index_probes(index, probes) ==
    IF probes = <<>> THEN index
    ELSE index_probes(
            index_probe(index, Head(probes), Head(probes).list_function),
            Tail(probes))

\* ----------------------------------------------- __get_probe, lines 117-121
\* position of the first probe with that name; 0 stands for
\* raise ProbeNotFoundError(name)
RECURSIVE get_probe_from(_, _, _)
get_probe_from(probes, name, i) ==
    IF i > Len(probes) THEN 0
    ELSE IF probes[i].name = name THEN i
    ELSE get_probe_from(probes, name, i + 1)

get_probe(probes, name) == get_probe_from(probes, name, 1)

\* -------------------------------------------- __get_function, lines 126-130
\* position of the first entry with that function name; 0 stands for
\* raise FunctionNotFoundError(name)
RECURSIVE get_function_from(_, _, _)
get_function_from(index, name, i) ==
    IF i > Len(index) THEN 0
    ELSE IF index[i].function.name = name THEN i
    ELSE get_function_from(index, name, i + 1)

\* faulty variant: the search keeps going and answers the last match
RECURSIVE get_function_last_from(_, _, _)
get_function_last_from(index, name, i) ==
    IF i < 1 THEN 0
    ELSE IF index[i].function.name = name THEN i
    ELSE get_function_last_from(index, name, i - 1)

get_function_last(index, name) == get_function_last_from(index, name, Len(index))

\* faulty variant: an unknown name falls back to the first entry instead of raising
get_function_default(index, name) ==
    IF get_function_from(index, name, 1) = 0 /\ Len(index) > 0 THEN 1
    ELSE get_function_from(index, name, 1)

get_function(index, name) == get_function_from(index, name, 1)

\* ---------------------------------------------- function_list, lines 149-152
RECURSIVE list_from(_, _)
list_from(return_list, probes) ==
    IF probes = <<>> THEN return_list
    ELSE list_from(return_list \o Head(probes).list_function, Tail(probes))

\* faulty variant: each probe's list is put in front of what was collected
RECURSIVE list_from_prepending(_, _)
list_from_prepending(return_list, probes) ==
    IF probes = <<>> THEN return_list
    ELSE list_from_prepending(Head(probes).list_function \o return_list,
                              Tail(probes))

function_list_prepending(probes) == list_from_prepending(<<>>, probes)

\* faulty variant: the list is read from the class-level function index
function_list_from_index(probes) ==
    [i \in 1..Len(function_index) |-> function_index[i].function]

function_list(probes) == list_from(<<>>, probes)

\* ---------------------------------------------- function_call, lines 181-217
\* faulty variant: an empty argument mapping is replaced by a default one
call_function_defaulting(probe, function_name, function_args, behaviour) ==
    [probe |-> probe.name, name |-> function_name,
     args |-> IF function_args = {} THEN {<<"x", 1>>} ELSE function_args,
     kind |-> behaviour.kind, value |-> behaviour.value]

\* lines 195-198: probe['call_function'](function_name, function_args);
\* the record is the invocation the probe saw and what the probe did
call_function(probe, function_name, function_args, behaviour) ==
    [probe |-> probe.name, name |-> function_name, args |-> function_args,
     kind |-> behaviour.kind, value |-> behaviour.value]

\* how function_call ends, given what the probe does when it is reached
call_outcome(index, probes, function_name, function_args, behaviour) ==
    LET f == get_function(index, function_name)
        p == IF f = 0 THEN 0 ELSE get_probe(probes, index[f].probe)
        probe_result == call_function(probes[p], function_name,
                                      function_args, behaviour)
    IN  IF f = 0 THEN
            \* except FunctionNotFoundError: print(err); return None
            [kind |-> "none", value |-> "",
             error |-> "FunctionNotFoundError", invoked |-> <<>>]
        ELSE IF p = 0 THEN
            \* except ProbeNotFoundError: print(err); return None
            [kind |-> "none", value |-> "",
             error |-> "ProbeNotFoundError", invoked |-> <<>>]
        ELSE IF probe_result.kind = "raise" THEN
            \* no except clause matches: the probe's exception propagates
            [kind |-> "raise", value |-> "",
             error |-> "ProbeError", invoked |-> <<probe_result>>]
        ELSE
            \* return probe_result
            [kind |-> "return", value |-> probe_result.value,
             error |-> "", invoked |-> <<probe_result>>]

NoCall == [kind |-> "none", value |-> "", error |-> "", invoked |-> <<>>]

\* ------------------------------------------------------------------ state
Init ==
    /\ probe_index \in Registries
    /\ function_index = <<>>
    /\ constructed = 0
    /\ last = [op |-> "start", name |-> "", args |-> {}, outcome |-> NoCall]
    /\ listed = <<>>
    /\ previous = <<>>

\* ProbeController(): __init__ appends to the class-level __function_index
init ==
    /\ constructed < MaxControllers
    /\ function_index' = index_probes(function_index, probe_index)
    /\ constructed' = constructed + 1
    /\ last' = [op |-> "__init__", name |-> "", args |-> {}, outcome |-> NoCall]
    /\ UNCHANGED <<probe_index, listed, previous>>

\* controller.function_list()
FunctionList ==
    /\ constructed >= 1
    /\ listed' = <<function_list(probe_index)>>
    /\ previous' = listed
    /\ last' = [op |-> "function_list", name |-> "", args |-> {},
                outcome |-> NoCall]
    /\ UNCHANGED <<probe_index, function_index, constructed>>

\* faulty variant: the call re-registers the probes' functions before resolving
function_call_registering ==
    /\ constructed >= 1
    /\ \E function_name \in CallNames, function_args \in CallArgs,
          behaviour \in ProbeBehaviours :
          last' = [op |-> "function_call", name |-> function_name,
                   args |-> function_args,
                   outcome |-> call_outcome(function_index, probe_index,
                                  function_name, function_args, behaviour)]
    /\ function_index' = index_probes(function_index, probe_index)
    /\ UNCHANGED <<probe_index, constructed, listed, previous>>

\* controller.function_call(function_name, function_args)
function_call ==
    /\ constructed >= 1
    /\ \E function_name \in CallNames, function_args \in CallArgs,
          behaviour \in ProbeBehaviours :
          last' = [op |-> "function_call", name |-> function_name,
                   args |-> function_args,
                   outcome |-> call_outcome(function_index, probe_index,
                                  function_name, function_args, behaviour)]
    /\ UNCHANGED <<probe_index, function_index, constructed, listed, previous>>

Next == init \/ FunctionList \/ function_call

Spec == Init /\ [][Next]_vars

\* ------------------------------------------------------ shared vocabulary
\* the function names a probe advertises
Advertised(probe) ==
    {probe.list_function[j].name : j \in DOMAIN probe.list_function}

\* positions in the registry of the probes advertising a name
Advertisers(name) ==
    {i \in DOMAIN probe_index : name \in Advertised(probe_index[i])}

FirstOf(S) == CHOOSE i \in S : \A j \in S : i <= j

IsCall == last.op = "function_call"

\* the probe invocations the last function_call made
Invoked == last.outcome.invoked

\* C1: function_call never raises to its caller: whatever the name, the
\* arguments and the probe's behaviour (a probe that raises included), it
\* ends by returning a string or by returning None.
C1_NeverRaises ==
    IsCall => last.outcome.kind \in {"return", "none"}

\* C2: a name matching no entry of the function index makes function_call
\* return None, without raising and without invoking any probe.
C2_UnknownNameReturnsNone ==
    (IsCall /\ \A i \in DOMAIN function_index :
                    function_index[i].function.name # last.name)
        => /\ last.outcome.kind = "none"
           /\ Invoked = <<>>

C2_Witness ==
    /\ IsCall
    /\ last.name = "missing"
    /\ function_index # <<>>
    /\ last.outcome.kind = "none"

C4_FirstRegisteredWins ==
    (IsCall /\ Cardinality(Advertisers(last.name)) >= 2)
        => /\ Len(Invoked) = 1
           /\ Invoked[1].probe
                = probe_index[FirstOf(Advertisers(last.name))].name

C4_Witness ==
    /\ IsCall
    /\ Cardinality(Advertisers(last.name)) >= 2
    /\ constructed = MaxControllers
    /\ Len(Invoked) = 1
    /\ Invoked[1].probe = probe_index[1].name

\* the probes advertise pairwise disjoint sets of function names
DisjointNames ==
    \A i, j \in DOMAIN probe_index :
        i # j => Advertised(probe_index[i]) \cap Advertised(probe_index[j]) = {}

\* number of definitions listed by the probes before position i
RECURSIVE Offset(_)
Offset(i) ==
    IF i <= 1 THEN 0 ELSE Offset(i - 1) + Len(probe_index[i - 1].list_function)

\* no probe repeats a definition within its own listing
NoRepeatedListing ==
    \A i \in DOMAIN probe_index :
        \A j, k \in DOMAIN probe_index[i].list_function :
            probe_index[i].list_function[j] = probe_index[i].list_function[k]
                => j = k

\* C5: when the probes advertise pairwise disjoint name sets,
\* function_list() returns the concatenation of the probes' listings, probes
\* in registry order and each listing in its own order, nothing omitted and
\* nothing duplicated.
C5_ListIsConcatenation ==
    (listed # <<>> /\ DisjointNames)
        => LET L == listed[1]
           IN  /\ Len(L) = Offset(Len(probe_index) + 1)
               /\ \A i \in DOMAIN probe_index :
                    \A j \in DOMAIN probe_index[i].list_function :
                        L[Offset(i) + j] = probe_index[i].list_function[j]
               /\ NoRepeatedListing
                    => \A p, q \in DOMAIN L : L[p] = L[q] => p = q

C5_Witness ==
    /\ listed # <<>>
    /\ DisjointNames
    /\ Len(probe_index) = MaxProbes
    /\ \A i \in DOMAIN probe_index : probe_index[i].list_function # <<>>
    /\ Len(listed[1]) >= 3

\* C6: function_list() is idempotent: two consecutive calls of it, whatever
\* function calls and constructions happen in between, return the same
\* sequence, content and order.
C6_ListIdempotent ==
    previous # <<>> => listed = previous

C6_Witness ==
    /\ previous # <<>>
    /\ listed # <<>>
    /\ listed[1] # <<>>
    /\ constructed = MaxControllers

\* the definitions held in the function index, in index order
IndexDefinitions ==
    [i \in 1..Len(function_index) |-> function_index[i].function]

\* C7: in every state after construction, function_list() returns the
\* sequence of definitions held in the function index, same order and same
\* length.
C7_ListEqualsIndex ==
    constructed >= 1 => function_list(probe_index) = IndexDefinitions

\* C8: the function index is built once: after any number of constructions
\* it holds exactly one entry per definition the probes list, in registry
\* order; a later construction does not append to it.
C8_IndexBuiltOnce ==
    constructed >= 1
        => /\ function_index = index_probes(<<>>, probe_index)
           /\ Len(function_index) = Offset(Len(probe_index) + 1)

\* C9: every function index entry names a probe present in the registry,
\* and no function_call ends in the ProbeNotFoundError branch.
C9_IndexNamesRegisteredProbes ==
    /\ \A i \in DOMAIN function_index :
            \E p \in DOMAIN probe_index :
                probe_index[p].name = function_index[i].probe
    /\ last.outcome.error # "ProbeNotFoundError"

C9_Witness ==
    /\ IsCall
    /\ constructed = MaxControllers
    /\ Len(function_index) >= 2
    /\ Len(Invoked) = 1
    /\ Invoked[1].probe = probe_index[Len(probe_index)].name
    /\ Len(probe_index) = MaxProbes

\* the probe the index makes a name resolve to; "" when no entry matches
Owner(index, name) ==
    LET matches == {i \in DOMAIN index : index[i].function.name = name}
    IN  IF matches = {} THEN "" ELSE index[FirstOf(matches)].probe

\* C10: function_call and function_list leave the registry and the function
\* index unchanged, and the probe a function_call reaches is the one the
\* index built at construction gives for the name, whatever calls came
\* before.
C10_CallsAreStateless ==
    [][last'.op \in {"function_call", "function_list"}
        => /\ probe_index' = probe_index
           /\ function_index' = function_index
           /\ last'.op = "function_call"
                => (IF last'.outcome.invoked = <<>> THEN ""
                    ELSE last'.outcome.invoked[1].probe)
                        = Owner(function_index', last'.name)]_vars

C10_Witness ==
    /\ IsCall
    /\ previous # <<>>
    /\ constructed = MaxControllers
    /\ function_index # <<>>
    /\ Len(Invoked) = 1

====
